---- MODULE Spec2Model ----
(***************************************************************************)
(* A model of the polling file watcher of src/watcher.go: the Watcher      *)
(* struct, its configuration calls, the poll loop of Start with            *)
(* retrieveFileList, Close, Wait/TriggerEvent, and the diff of pollEvents. *)
(*                                                                         *)
(* Paths are sequences of one-character strings so that strings.HasPrefix, *)
(* filepath.Dir and the "old -> new" encoding are computed, not assumed.   *)
(* Maps (names, files, fileList, creates, removes) are functions whose     *)
(* DOMAIN is the key set; ranging over a map picks the next key            *)
(* nondeterministically.  The mutex is the variable mu: a call that only   *)
(* locks, works and unlocks is one action guarded by mu = Free; the code   *)
(* that blocks while it holds the mutex keeps mu between actions.          *)
(* A FileInfo carries the base name, the directory flag, size, mode and    *)
(* modification time.  IgnoreHiddenFiles is never called: w.ignoreHidden   *)
(* stays false and the hidden-file tests of Add, list and listRecursive    *)
(* never hold.  A listing fails with "not exist" for a path that is gone   *)
(* and with "permission denied" for a directory that cannot be read.       *)
(***************************************************************************)
EXTENDS Integers, Sequences, FiniteSets, TLC

(***************************************************************************)
(* Bounds of the model.                                                    *)
(***************************************************************************)
MaxConfigCalls == 2
LifeConfigCalls == 1
MaxMtime == 1
MaxCap == 1
MaxErrors == 2

(***************************************************************************)
(* Program constants.                                                      *)
(***************************************************************************)
Nanosecond == 1

Create == 0
Write == 1
Remove == 2
Rename == 3
Chmod == 4
Move == 5
Ops == {Create, Write, Remove, Rename, Chmod, Move}

ErrDurationTooShort == "error:duration is less than 1ns"
ErrWatcherRunning == "error:watcher is already running"
ErrWatchedFileDeleted == "error: watched file or folder deleted"

\* The permission bits of a directory that cannot be read.
Unreadable == 1

(***************************************************************************)
(* Paths, and the path functions of the Go library that the code uses.     *)
(***************************************************************************)
Cwd == <<"/">>
PathA == <<"/", "a">>
PathAB == <<"/", "a", "/", "b">>
PathABC == <<"/", "a", "/", "b", "/", "c">>
RelA == <<"a">>
PathAX == <<"/", "a", "/", "x">>
PathAY == <<"/", "a", "/", "y">>
PathBX == <<"/", "b", "/", "x">>

FsPaths == {PathA, PathAB, PathABC}
ArgPaths == FsPaths \cup {RelA}
DiffPaths == {PathAX, PathAY, PathBX}

HasPrefix(s, prefix) ==
    /\ Len(prefix) <= Len(s)
    /\ SubSeq(s, 1, Len(prefix)) = prefix

Slashes(s) == {i \in 1..Len(s) : s[i] = "/"}

LastSlash(s) == CHOOSE i \in Slashes(s) : \A j \in Slashes(s) : j <= i

Dir(path) ==
    IF Slashes(path) = {} THEN <<".">>
    ELSE IF LastSlash(path) = 1 THEN <<"/">>
    ELSE SubSeq(path, 1, LastSlash(path) - 1)

Join(dir, elem) ==
    IF dir = <<"/">> THEN dir \o elem ELSE dir \o <<"/">> \o elem

Abs(name) == IF name[1] = "/" THEN name ELSE Join(Cwd, name)

Base(path) ==
    IF Slashes(path) = {} THEN path
    ELSE SubSeq(path, LastSlash(path) + 1, Len(path))

(***************************************************************************)
(* Maps.                                                                   *)
(***************************************************************************)
EmptyMap == <<>>

MapPut(m, k, v) ==
    [x \in DOMAIN m \cup {k} |-> IF x = k THEN v ELSE m[x]]

MapDelete(m, ks) == [x \in DOMAIN m \ ks |-> m[x]]

MapMerge(m, list) ==
    [x \in DOMAIN m \cup DOMAIN list |->
        IF x \in DOMAIN list THEN list[x] ELSE m[x]]

(***************************************************************************)
(* File metadata (os.FileInfo) and events.                                 *)
(***************************************************************************)
FileInfo(name, dir, size, mode, mtime) ==
    [name |-> name, dir |-> dir, size |-> size, mode |-> mode,
     mtime |-> mtime]

Event(op, path, info) == [Op |-> op, Path |-> path, FileInfo |-> info]

TriggerPath == <<"-">>
TriggeredInfo == FileInfo(<<"triggered event">>, FALSE, 0, 0, 0)

Free == "free"
NoPanic == "none"
NoResult == "none"
ResultNil == "nil"

Starters == {"s1", "s2"}
Closers == {"c1", "c2"}
Configurer == "g"
Trigger == "t"
Procs == Starters \cup Closers \cup {Configurer, Trigger}

\* Callers of one kind are interchangeable: the second one calls after the
\* first has made its call (it may still be inside it).
Earlier(p) == IF p = "s2" THEN {"s1"} ELSE IF p = "c2" THEN {"c1"} ELSE {}

VARIABLES
    fs,          \* the file system: existing path -> FileInfo
    mu,          \* holder of w.mu, or Free
    runnning,    \* w.runnning
    names,       \* w.names: root -> recursive
    files,       \* w.files: path -> FileInfo
    ignored,     \* w.ignored
    ops,         \* w.ops
    maxEvents,   \* w.maxEvents
    wg,          \* counter of w.wg
    ClosedCh,    \* number of close(w.Closed) executed
    panicked,    \* the panic that ended the program, or NoPanic
    pc,          \* position of each caller
    result,      \* value returned by each call
    loc,         \* locals of Start per caller
    cfg,         \* the configuring caller: calls left, pending argument
    delivered,   \* events received from w.Event since the cycle's delivery began
    errors,      \* errors received from w.Error
    hist,        \* history flags used to state the claims
    poll         \* locals of pollEvents

vars == <<fs, mu, runnning, names, files, ignored, ops, maxEvents, wg,
          ClosedCh, panicked, pc, result, loc, cfg, delivered, errors,
          hist, poll>>


(***************************************************************************)
(* Listing: Watcher.list and Watcher.listRecursive read the file system    *)
(* under the ignore set.  A listing returns the error (NoErr, NotExist or  *)
(* ErrPermission) and the map it returns with it.                          *)
(***************************************************************************)
NoErr == "nil"
NotExist == "not exist"
ErrPermission == "permission denied"

Children(name) == {p \in DOMAIN fs : p # name /\ Dir(p) = name}

list(name) ==
    IF name \notin DOMAIN fs THEN [err |-> NotExist, list |-> EmptyMap]
    ELSE IF ~fs[name].dir
        THEN [err |-> NoErr, list |-> [p \in {name} |-> fs[p]]]
    ELSE IF fs[name].mode = Unreadable
        THEN [err |-> ErrPermission, list |-> EmptyMap]
    ELSE [err |-> NoErr,
          list |-> [p \in {name} \cup {c \in Children(name) : c \notin ignored}
                        |-> fs[p]]]

\* filepath.Walk visits the entries of a directory in lexical order; the
\* names of the entries of one directory are single characters here.
Alphabet == <<"a", "b", "c", "x", "y">>

CharRank(ch) == CHOOSE i \in DOMAIN Alphabet : Alphabet[i] = ch

Before(p, q) == CharRank(Base(p)[1]) < CharRank(Base(q)[1])

\* The walk from path: the error that stopped it, or NoErr, and the paths
\* that the callback of listRecursive put into fileList.  The callback
\* returns the error of reading a directory before it looks at w.ignored.
\* gone is an entry that a directory still listed when the walk read it
\* and that lstat, or the reading of the entry itself, does not find any
\* more: the callback gets a not-exist error for it and returns it.  gone
\* is NoPath when no entry disappears under the walk.
NoPath == <<>>

RECURSIVE Walk(_, _)
RECURSIVE WalkDir(_, _)
Walk(path, gone) ==
    IF path = gone
    THEN [err |-> NotExist, seen |-> {}]
    ELSE IF ~fs[path].dir
    THEN [err |-> NoErr, seen |-> IF path \in ignored THEN {} ELSE {path}]
    ELSE IF fs[path].mode = Unreadable
    THEN [err |-> ErrPermission, seen |-> {}]
    ELSE IF path \in ignored
    THEN [err |-> NoErr, seen |-> {}]
    ELSE LET below == WalkDir(Children(path), gone)
         IN  [err |-> below.err, seen |-> {path} \cup below.seen]

WalkDir(todo, gone) ==
    IF todo = {} THEN [err |-> NoErr, seen |-> {}]
    ELSE LET c == CHOOSE c \in todo : \A d \in todo \ {c} : Before(c, d)
             r == Walk(c, gone)
             rest == WalkDir(todo \ {c}, gone)
         IN  IF r.err # NoErr THEN r
             ELSE [err |-> rest.err, seen |-> r.seen \cup rest.seen]

listRecursive(name) ==
    IF name \notin DOMAIN fs THEN [err |-> NotExist, list |-> EmptyMap]
    ELSE LET w == Walk(name, NoPath)
         IN  [err |-> w.err, list |-> [p \in w.seen |-> fs[p]]]

(***************************************************************************)
(* The file system changes while filepath.Walk runs.  The walk is a        *)
(* sequence of system calls: lstat of the root, then for each directory    *)
(* the reading of its names and lstat of each name.  A change that falls   *)
(* between two of them gives the result of a walk of the file system       *)
(* before or after the change, with one exception: an entry removed after  *)
(* its directory was read and before the walk reaches it.  A race is that  *)
(* entry.  (The removal of a directory above the entry at that moment is   *)
(* the removal of the entry followed by FsRemove of the directory.)        *)
(***************************************************************************)
NoRace == NoPath

Races(name) ==
    IF name \notin DOMAIN fs THEN {}
    ELSE {v \in DOMAIN fs :
            /\ HasPrefix(v, name \o <<"/">>)
            /\ Walk(name, v).err = NotExist}

\* The file system without the subtree of p.
Without(p) ==
    [q \in {q \in DOMAIN fs : q # p /\ ~HasPrefix(q, p \o <<"/">>)}
        |-> fs[q]]

\* What listRecursive(name) returns under a race, and the file system the
\* call leaves behind.
listRecursiveRace(name, race) ==
    IF race = NoRace
    THEN LET r == listRecursive(name)
         IN  [err |-> r.err, list |-> r.list, fs |-> fs]
    ELSE [err |-> NotExist,
          list |-> [p \in Walk(name, race).seen |-> fs[p]],
          fs |-> Without(race)]

(***************************************************************************)
(* The effect of Remove and RemoveRecursive on w.files.                    *)
(***************************************************************************)
RemoveFiles(m, name) ==
    IF name \notin DOMAIN m THEN m
    ELSE IF ~m[name].dir THEN MapDelete(m, {name})
    ELSE MapDelete(m, {name} \cup {p \in DOMAIN m : Dir(p) = name})

RemoveRecursiveFiles(m, name) ==
    IF name \notin DOMAIN m THEN m
    ELSE IF ~m[name].dir THEN MapDelete(m, {name})
    ELSE MapDelete(m, {p \in DOMAIN m : HasPrefix(p, name)})

(***************************************************************************)
(* sync.WaitGroup.Done on w.wg, and close(w.Closed).                       *)
(***************************************************************************)
\* A Done that is dropped once the counter is zero instead of panicking.
WgDoneOnce(counter) ==
    IF counter - 1 < 0
    THEN [wg |-> counter, panic |-> NoPanic]
    ELSE [wg |-> counter - 1, panic |-> NoPanic]

WgDone(counter) ==
    IF counter - 1 < 0
    THEN [wg |-> counter, panic |-> "sync: negative WaitGroup counter"]
    ELSE [wg |-> counter - 1, panic |-> NoPanic]

CloseClosed(n) ==
    IF n > 0
    THEN [n |-> n + 1, panic |-> "close of closed channel"]
    ELSE [n |-> n + 1, panic |-> NoPanic]

(***************************************************************************)
(* The range over w.names in retrieveFileList.  loc[s].todo holds the      *)
(* keys the range has still to produce.  The range is over the map object  *)
(* it started on: a delete on that object drops the key, a new key may be  *)
(* produced or skipped, and Close, which installs a fresh map, leaves the  *)
(* range on the old object (detached, kept in oldNames).                   *)
(***************************************************************************)
MidIter(s) ==
    pc[s] \in {"iter", "senderr", "unlock", "rm", "relock", "sendother"}

IterMap(s) == IF loc[s].detached THEN loc[s].oldNames ELSE names

IterDelete(name) ==
    [s \in Starters |->
        IF MidIter(s) /\ ~loc[s].detached
        THEN [loc[s] EXCEPT !.todo = @ \ {name}]
        ELSE loc[s]]

IterInsert(name, produced) ==
    [s \in Starters |->
        IF MidIter(s) /\ ~loc[s].detached /\ name \notin DOMAIN names
           /\ produced
        THEN [loc[s] EXCEPT !.todo = @ \cup {name}]
        ELSE loc[s]]

IterDetach ==
    [s \in Starters |->
        IF MidIter(s) /\ ~loc[s].detached
        THEN [loc[s] EXCEPT !.detached = TRUE, !.oldNames = names]
        ELSE loc[s]]

(***************************************************************************)
(* Initial state: New().                                                   *)
(***************************************************************************)
InitFs ==
    [p \in FsPaths |-> FileInfo(Base(p), p # PathABC, 10, 0, 0)]

InitLoc ==
    [d |-> 0, fileList |-> EmptyMap, todo |-> {}, detached |-> FALSE,
     oldNames |-> EmptyMap, name |-> <<>>, recursive |-> FALSE,
     list |-> EmptyMap]

InitPoll ==
    [pc |-> "idle", new |-> EmptyMap, creates |-> EmptyMap,
     removes |-> EmptyMap, todo |-> {}, todoC |-> {}, cur |-> <<>>,
     info1 |-> <<>>, ev |-> <<>>, out |-> <<>>, cancel |-> FALSE]

New ==
    /\ mu = Free
    /\ runnning = FALSE
    /\ names = EmptyMap
    /\ files = EmptyMap
    /\ ignored = {}
    /\ ops = {}
    /\ maxEvents = 0
    /\ wg = 1
    /\ ClosedCh = 0

Init ==
    /\ New
    /\ fs = InitFs
    /\ panicked = NoPanic
    /\ pc = [p \in Procs |-> "idle"]
    /\ result = [p \in Procs |-> NoResult]
    /\ loc = [s \in Starters |-> InitLoc]
    /\ cfg = [left |-> MaxConfigCalls, arg |-> <<>>]
    /\ delivered = <<>>
    /\ errors = <<>>
    /\ hist = [cfgDirty |-> FALSE, addSinceClear |-> FALSE, cleared |-> {}]
    /\ poll = InitPoll


(***************************************************************************)
(* Inputs.                                                                 *)
(***************************************************************************)
Durations == {0, Nanosecond}
FilterArgs == {{}, {Write}, {Create}}
TriggerOps == {Write}

\* A panic ends the program: no caller takes a step after it.
Alive == panicked = NoPanic

Ret(p, r) ==
    /\ pc' = [pc EXCEPT ![p] = "ret"]
    /\ result' = [result EXCEPT ![p] = r]

Goto(p, l) == pc' = [pc EXCEPT ![p] = l]

(***************************************************************************)
(* The file system changes on its own.                                     *)
(***************************************************************************)
FsRemove(p) ==
    /\ Alive
    /\ p \in DOMAIN fs
    /\ fs' = Without(p)
    /\ UNCHANGED <<mu, runnning, names, files, ignored, ops, maxEvents, wg,
                   ClosedCh, panicked, pc, result, loc, cfg, delivered,
                   errors, hist, poll>>

FsWrite(p) ==
    /\ Alive
    /\ p \in DOMAIN fs
    /\ ~fs[p].dir
    /\ fs[p].mtime < MaxMtime
    /\ fs' = [fs EXCEPT ![p].mtime = @ + 1]
    /\ UNCHANGED <<mu, runnning, names, files, ignored, ops, maxEvents, wg,
                   ClosedCh, panicked, pc, result, loc, cfg, delivered,
                   errors, hist, poll>>

\* A directory loses its read permission.
FsDeny(p) ==
    /\ Alive
    /\ p \in DOMAIN fs
    /\ fs[p].dir
    /\ fs[p].mode # Unreadable
    /\ fs' = [fs EXCEPT ![p].mode = Unreadable]
    /\ UNCHANGED <<mu, runnning, names, files, ignored, ops, maxEvents, wg,
                   ClosedCh, panicked, pc, result, loc, cfg, delivered,
                   errors, hist, poll>>

(***************************************************************************)
(* Configuration calls.  Each is one critical section of w.mu.             *)
(***************************************************************************)
CfgReady ==
    /\ pc[Configurer] = "idle"
    /\ cfg.left > 0
    /\ mu = Free

CfgDone(r) ==
    /\ cfg' = [cfg EXCEPT !.left = @ - 1]
    /\ result' = [result EXCEPT ![Configurer] = r]
    /\ UNCHANGED pc

SetMaxEvents(delta) ==
    /\ Alive
    /\ CfgReady
    /\ maxEvents' = delta
    /\ CfgDone(ResultNil)
    /\ hist' = [hist EXCEPT !.cfgDirty = TRUE]
    /\ UNCHANGED <<fs, mu, runnning, names, files, ignored, ops, wg, ClosedCh,
                   panicked, loc, delivered, errors, poll>>

FilterOps(opsArg) ==
    /\ Alive
    /\ CfgReady
    /\ ops' = opsArg
    /\ CfgDone(ResultNil)
    /\ hist' = [hist EXCEPT !.cfgDirty = TRUE]
    /\ UNCHANGED <<fs, mu, runnning, names, files, ignored, maxEvents, wg,
                   ClosedCh, panicked, loc, delivered, errors, poll>>

Add(arg, produced) ==
    LET name == Abs(arg)
        r == list(name)
    IN  /\ Alive
        /\ CfgReady
        /\ IF name \in ignored
           THEN /\ CfgDone(ResultNil)
                /\ UNCHANGED <<names, files, loc, hist>>
           ELSE IF r.err # NoErr
           THEN /\ CfgDone(r.err)
                /\ UNCHANGED <<names, files, loc, hist>>
           ELSE /\ files' = MapMerge(files, r.list)
                /\ names' = MapPut(names, name, FALSE)
                /\ loc' = IterInsert(name, produced)
                /\ hist' = [hist EXCEPT !.cfgDirty = TRUE,
                                        !.addSinceClear = TRUE]
                /\ CfgDone(ResultNil)
        /\ UNCHANGED <<fs, mu, runnning, ignored, ops, maxEvents, wg,
                       ClosedCh, panicked, delivered, errors, poll>>

AddRecursive(arg, produced) ==
    LET name == Abs(arg)
    IN  /\ Alive
        /\ CfgReady
        /\ \E race \in {NoRace} \cup Races(name) :
              LET r == listRecursiveRace(name, race)
              IN  /\ fs' = r.fs
                  /\ IF r.err # NoErr
                     THEN /\ CfgDone(r.err)
                          /\ UNCHANGED <<names, files, loc, hist>>
                     ELSE /\ files' = MapMerge(files, r.list)
                          /\ names' = MapPut(names, name, TRUE)
                          /\ loc' = IterInsert(name, produced)
                          /\ hist' = [hist EXCEPT !.cfgDirty = TRUE,
                                                  !.addSinceClear = TRUE]
                          /\ CfgDone(ResultNil)
        /\ UNCHANGED <<mu, runnning, ignored, ops, maxEvents, wg,
                       ClosedCh, panicked, delivered, errors, poll>>

WatcherRemove(arg) ==
    LET name == Abs(arg)
    IN  /\ Alive
        /\ CfgReady
        /\ names' = MapDelete(names, {name})
        /\ files' = RemoveFiles(files, name)
        /\ loc' = IterDelete(name)
        /\ hist' = [hist EXCEPT !.cfgDirty = TRUE]
        /\ CfgDone(ResultNil)
        /\ UNCHANGED <<fs, mu, runnning, ignored, ops, maxEvents, wg,
                       ClosedCh, panicked, delivered, errors, poll>>

RemoveRecursive(arg) ==
    LET name == Abs(arg)
    IN  /\ Alive
        /\ CfgReady
        /\ names' = MapDelete(names, {name})
        /\ files' = RemoveRecursiveFiles(files, name)
        /\ loc' = IterDelete(name)
        /\ hist' = [hist EXCEPT !.cfgDirty = TRUE]
        /\ CfgDone(ResultNil)
        /\ UNCHANGED <<fs, mu, runnning, ignored, ops, maxEvents, wg,
                       ClosedCh, panicked, delivered, errors, poll>>

(***************************************************************************)
(* Ignore(path): RemoveRecursive(path) in one critical section, then the   *)
(* insertion into w.ignored in a second one.                               *)
(***************************************************************************)
Ignore(arg) ==
    LET path == Abs(arg)
    IN  /\ Alive
        /\ CfgReady
        /\ names' = MapDelete(names, {path})
        /\ files' = RemoveRecursiveFiles(files, path)
        /\ loc' = IterDelete(path)
        /\ hist' = [hist EXCEPT !.cfgDirty = TRUE]
        /\ cfg' = [left |-> cfg.left - 1, arg |-> path]
        /\ Goto(Configurer, "ignore")
        /\ UNCHANGED <<fs, mu, runnning, ignored, ops, maxEvents, wg,
                       ClosedCh, panicked, result, delivered, errors, poll>>

IgnoreMark ==
    /\ Alive
    /\ pc[Configurer] = "ignore"
    /\ mu = Free
    /\ ignored' = ignored \cup {cfg.arg}
    /\ cfg' = [cfg EXCEPT !.arg = <<>>]
    /\ pc' = [pc EXCEPT ![Configurer] = "idle"]
    /\ result' = [result EXCEPT ![Configurer] = ResultNil]
    /\ UNCHANGED <<fs, mu, runnning, names, files, ops, maxEvents, wg,
                   ClosedCh, panicked, loc, delivered, errors, hist, poll>>


(***************************************************************************)
(* Start(d): the checks, wg.Done, then the poll loop.                      *)
(***************************************************************************)
\* Start with the interval check made after w.runnning is set.
StartCallLateCheck(s, d) ==
    /\ Alive
    /\ pc[s] = "idle"
    /\ \A e \in Earlier(s) : pc[e] # "idle"
    /\ IF d < Nanosecond
       THEN /\ Ret(s, ErrDurationTooShort)
            /\ runnning' = TRUE
            /\ UNCHANGED loc
       ELSE /\ Goto(s, "lock")
            /\ loc' = [loc EXCEPT ![s].d = d]
            /\ UNCHANGED <<result, runnning>>
    /\ UNCHANGED <<fs, mu, names, files, ignored, ops, maxEvents,
                   wg, ClosedCh, panicked, cfg, delivered, errors, hist, poll>>

StartCall(s, d) ==
    /\ Alive
    /\ pc[s] = "idle"
    /\ \A e \in Earlier(s) : pc[e] # "idle"
    /\ IF d < Nanosecond
       THEN /\ Ret(s, ErrDurationTooShort)
            /\ UNCHANGED loc
       ELSE /\ Goto(s, "lock")
            /\ loc' = [loc EXCEPT ![s].d = d]
            /\ UNCHANGED result
    /\ UNCHANGED <<fs, mu, runnning, names, files, ignored, ops, maxEvents,
                   wg, ClosedCh, panicked, cfg, delivered, errors, hist, poll>>

\* Start without the test of w.runnning.
StartLockNoCheck(s) ==
    /\ Alive
    /\ pc[s] = "lock"
    /\ mu = Free
    /\ runnning' = TRUE
    /\ Goto(s, "wgdone")
    /\ UNCHANGED <<fs, mu, names, files, ignored, ops, maxEvents, wg,
                   ClosedCh, panicked, result, loc, cfg, delivered, errors,
                   hist, poll>>

StartLock(s) ==
    /\ Alive
    /\ pc[s] = "lock"
    /\ mu = Free
    /\ IF runnning
       THEN /\ Ret(s, ErrWatcherRunning)
            /\ UNCHANGED runnning
       ELSE /\ runnning' = TRUE
            /\ Goto(s, "wgdone")
            /\ UNCHANGED result
    /\ UNCHANGED <<fs, mu, names, files, ignored, ops, maxEvents, wg,
                   ClosedCh, panicked, loc, cfg, delivered, errors, hist, poll>>

StartWgDone(s) ==
    LET r == WgDone(wg)
    IN  /\ Alive
        /\ pc[s] = "wgdone"
        /\ wg' = r.wg
        /\ panicked' = r.panic
        /\ IF r.panic = NoPanic THEN Goto(s, "list") ELSE UNCHANGED pc
        /\ UNCHANGED <<fs, mu, runnning, names, files, ignored, ops,
                       maxEvents, ClosedCh, result, loc, cfg, delivered,
                       errors, hist, poll>>

(***************************************************************************)
(* retrieveFileList: the range over w.names under w.mu.                    *)
(***************************************************************************)
RetrieveBegin(s) ==
    /\ Alive
    /\ pc[s] = "list"
    /\ mu = Free
    /\ mu' = s
    /\ loc' = [loc EXCEPT ![s].fileList = EmptyMap,
                          ![s].todo = DOMAIN names]
    /\ Goto(s, "iter")
    /\ UNCHANGED <<fs, runnning, names, files, ignored, ops, maxEvents, wg,
                   ClosedCh, panicked, result, cfg, delivered, errors, hist,
                   poll>>

RetrieveVisit(s, name) ==
    LET recursive == IterMap(s)[name]
    IN  /\ Alive
        /\ pc[s] = "iter"
        /\ name \in loc[s].todo
        /\ \E race \in {NoRace} \cup (IF recursive THEN Races(name) ELSE {}) :
              LET l == list(name)
                  r == IF recursive THEN listRecursiveRace(name, race)
                       ELSE [err |-> l.err, list |-> l.list, fs |-> fs]
              IN  /\ fs' = r.fs
                  /\ IF r.err = NotExist
                     THEN /\ loc' = [loc EXCEPT ![s].todo = @ \ {name},
                                                ![s].name = name,
                                                ![s].recursive = recursive,
                                                ![s].list = r.list]
                          /\ Goto(s, "senderr")
                     ELSE IF r.err # NoErr
                     THEN /\ loc' = [loc EXCEPT ![s].todo = @ \ {name},
                                                ![s].name = name,
                                                ![s].list = r.list]
                          /\ Goto(s, "sendother")
                     ELSE /\ loc' = [loc EXCEPT
                                       ![s].todo = @ \ {name},
                                       ![s].fileList = MapMerge(@, r.list)]
                          /\ UNCHANGED pc
        /\ UNCHANGED <<mu, runnning, names, files, ignored, ops,
                       maxEvents, wg, ClosedCh, panicked, result, cfg,
                       delivered, errors, hist, poll>>

\* w.Error <- ErrWatchedFileDeleted completes when a consumer receives.
\* An entry of errors is the error received and the root it was sent for.
\* The consumer receives MaxErrors errors.
ReceiveError(s) ==
    /\ Alive
    /\ pc[s] = "senderr"
    /\ Len(errors) < MaxErrors
    /\ errors' = Append(errors, [err |-> ErrWatchedFileDeleted,
                                 root |-> loc[s].name])
    /\ Goto(s, "unlock")
    /\ UNCHANGED <<fs, mu, runnning, names, files, ignored, ops, maxEvents,
                   wg, ClosedCh, panicked, result, loc, cfg, delivered, hist,
                   poll>>

\* w.Error <- err for another error completes when a consumer receives;
\* the loop goes on with what the listing returned.
ReceiveOtherError(s) ==
    /\ Alive
    /\ pc[s] = "sendother"
    /\ Len(errors) < MaxErrors
    /\ errors' = Append(errors, [err |-> ErrPermission, root |-> loc[s].name])
    /\ loc' = [loc EXCEPT ![s].fileList = MapMerge(@, loc[s].list),
                          ![s].name = <<>>,
                          ![s].list = EmptyMap]
    /\ Goto(s, "iter")
    /\ UNCHANGED <<fs, mu, runnning, names, files, ignored, ops, maxEvents,
                   wg, ClosedCh, panicked, result, cfg, delivered, hist,
                   poll>>

RetrieveUnlock(s) ==
    /\ Alive
    /\ pc[s] = "unlock"
    /\ mu' = Free
    /\ Goto(s, "rm")
    /\ UNCHANGED <<fs, runnning, names, files, ignored, ops, maxEvents, wg,
                   ClosedCh, panicked, result, loc, cfg, delivered, errors,
                   hist, poll>>

RetrieveRemove(s) ==
    /\ Alive
    /\ pc[s] = "rm"
    /\ mu = Free
    /\ names' = MapDelete(names, {loc[s].name})
    /\ files' = IF loc[s].recursive
                THEN RemoveRecursiveFiles(files, loc[s].name)
                ELSE RemoveFiles(files, loc[s].name)
    /\ loc' = IterDelete(loc[s].name)
    /\ Goto(s, "relock")
    /\ UNCHANGED <<fs, mu, runnning, ignored, ops, maxEvents, wg, ClosedCh,
                   panicked, result, cfg, delivered, errors, hist, poll>>

\* The return from the removal of a deleted root that ends the range.
RetrieveRelockAbort(s) ==
    /\ Alive
    /\ pc[s] = "relock"
    /\ mu = Free
    /\ mu' = s
    /\ loc' = [loc EXCEPT ![s].fileList = MapMerge(@, loc[s].list),
                          ![s].todo = {},
                          ![s].name = <<>>,
                          ![s].recursive = FALSE,
                          ![s].list = EmptyMap]
    /\ Goto(s, "iter")
    /\ UNCHANGED <<fs, runnning, names, files, ignored, ops, maxEvents, wg,
                   ClosedCh, panicked, result, cfg, delivered, errors, hist,
                   poll>>

RetrieveRelock(s) ==
    /\ Alive
    /\ pc[s] = "relock"
    /\ mu = Free
    /\ mu' = s
    /\ loc' = [loc EXCEPT ![s].fileList = MapMerge(@, loc[s].list),
                          ![s].name = <<>>,
                          ![s].recursive = FALSE,
                          ![s].list = EmptyMap]
    /\ Goto(s, "iter")
    /\ UNCHANGED <<fs, runnning, names, files, ignored, ops, maxEvents, wg,
                   ClosedCh, panicked, result, cfg, delivered, errors, hist,
                   poll>>

\* The range is exhausted: the deferred Unlock, then numEvents := 0.
RetrieveReturn(s) ==
    /\ Alive
    /\ pc[s] = "iter"
    /\ loc[s].todo = {}
    /\ mu' = Free
    /\ delivered' = <<>>
    /\ loc' = [loc EXCEPT ![s].detached = FALSE, ![s].oldNames = EmptyMap]
    /\ Goto(s, "select")
    /\ UNCHANGED <<fs, runnning, names, files, ignored, ops, maxEvents, wg,
                   ClosedCh, panicked, result, cfg, errors, hist, poll>>

(***************************************************************************)
(* The select of the inner loop.  Nothing sends on evt (no goroutine runs  *)
(* pollEvents), so the cases that can fire are w.close and done.           *)
(***************************************************************************)
ReceiveClose(s, c) ==
    LET r == CloseClosed(ClosedCh)
    IN  /\ Alive
        /\ pc[s] = "select"
        /\ pc[c] = "send"
        /\ ClosedCh' = r.n
        /\ panicked' = r.panic
        /\ pc' = [pc EXCEPT ![s] = "ret", ![c] = "ret"]
        /\ result' = [result EXCEPT ![s] = ResultNil, ![c] = ResultNil]
        /\ UNCHANGED <<fs, mu, runnning, names, files, ignored, ops,
                       maxEvents, wg, loc, cfg, delivered, errors, hist, poll>>

ReceiveDone(s) ==
    /\ Alive
    /\ pc[s] = "select"
    /\ Goto(s, "commit")
    /\ UNCHANGED <<fs, mu, runnning, names, files, ignored, ops, maxEvents,
                   wg, ClosedCh, panicked, result, loc, cfg, delivered,
                   errors, hist, poll>>

Commit(s) ==
    /\ Alive
    /\ pc[s] = "commit"
    /\ mu = Free
    /\ files' = loc[s].fileList
    /\ hist' = [hist EXCEPT !.cfgDirty = FALSE]
    /\ loc' = [loc EXCEPT ![s].fileList = EmptyMap]
    /\ Goto(s, "sleep")
    /\ UNCHANGED <<fs, mu, runnning, names, ignored, ops, maxEvents, wg,
                   ClosedCh, panicked, result, cfg, delivered, errors, poll>>

Sleep(s) ==
    /\ Alive
    /\ pc[s] = "sleep"
    /\ Goto(s, "list")
    /\ UNCHANGED <<fs, mu, runnning, names, files, ignored, ops, maxEvents,
                   wg, ClosedCh, panicked, result, loc, cfg, delivered,
                   errors, hist, poll>>

(***************************************************************************)
(* Close: the call, which waits for w.mu; the critical section; then the   *)
(* send on w.close, which completes in ReceiveClose.                       *)
(***************************************************************************)
CloseCall(c) ==
    /\ Alive
    /\ pc[c] = "idle"
    /\ \A e \in Earlier(c) : pc[e] # "idle"
    /\ Goto(c, "lock")
    /\ UNCHANGED <<fs, mu, runnning, names, files, ignored, ops, maxEvents,
                   wg, ClosedCh, panicked, result, loc, cfg, delivered,
                   errors, hist, poll>>

Close(c) ==
    /\ Alive
    /\ pc[c] = "lock"
    /\ mu = Free
    /\ IF ~runnning
       THEN /\ Ret(c, ResultNil)
            /\ UNCHANGED <<runnning, files, names, loc, hist>>
       ELSE /\ runnning' = FALSE
            /\ files' = EmptyMap
            /\ names' = EmptyMap
            /\ loc' = IterDetach
            /\ hist' = [cfgDirty |-> TRUE, addSinceClear |-> FALSE,
                        cleared |-> hist.cleared \cup {c}]
            /\ Goto(c, "send")
            /\ UNCHANGED result
    /\ UNCHANGED <<fs, mu, ignored, ops, maxEvents, wg, ClosedCh, panicked,
                   cfg, delivered, errors, poll>>

(***************************************************************************)
(* Wait and TriggerEvent.                                                  *)
(***************************************************************************)
TriggerEvent ==
    /\ Alive
    /\ pc[Trigger] = "idle"
    /\ Goto(Trigger, "wait")
    /\ UNCHANGED <<fs, mu, runnning, names, files, ignored, ops, maxEvents,
                   wg, ClosedCh, panicked, result, loc, cfg, delivered,
                   errors, hist, poll>>

Wait ==
    /\ Alive
    /\ pc[Trigger] = "wait"
    /\ wg = 0
    /\ Goto(Trigger, "send")
    /\ UNCHANGED <<fs, mu, runnning, names, files, ignored, ops, maxEvents,
                   wg, ClosedCh, panicked, result, loc, cfg, delivered,
                   errors, hist, poll>>

\* w.Event <- Event{...} of TriggerEvent completes when a consumer receives.
ReceiveTriggered(eventType) ==
    /\ Alive
    /\ pc[Trigger] = "send"
    /\ delivered' = Append(delivered, Event(eventType, TriggerPath, TriggeredInfo))
    /\ Ret(Trigger, ResultNil)
    /\ UNCHANGED <<fs, mu, runnning, names, files, ignored, ops, maxEvents,
                   wg, ClosedCh, panicked, loc, cfg, errors, hist, poll>>

(***************************************************************************)
(* The watcher and its callers.                                            *)
(***************************************************************************)
FsNext ==
    \E p \in FsPaths : FsRemove(p) \/ FsWrite(p)

ConfigNext ==
    \/ \E delta \in 0..MaxCap : SetMaxEvents(delta)
    \/ \E o \in FilterArgs : FilterOps(o)
    \/ \E a \in ArgPaths, produced \in BOOLEAN :
          Add(a, produced) \/ AddRecursive(a, produced)
    \/ \E a \in ArgPaths :
          WatcherRemove(a) \/ RemoveRecursive(a) \/ Ignore(a)
    \/ IgnoreMark

LoopNext(s) ==
    \/ StartLock(s) \/ StartWgDone(s)
    \/ RetrieveBegin(s) \/ RetrieveReturn(s)
    \/ \E name \in FsPaths : RetrieveVisit(s, name)
    \/ ReceiveDone(s) \/ Commit(s) \/ Sleep(s)

\* The path of retrieveFileList for a root that no longer exists.
DeletedRootNext(s) ==
    \/ ReceiveError(s)
    \/ RetrieveUnlock(s) \/ RetrieveRemove(s) \/ RetrieveRelock(s)

CallersNext(S, C) ==
    \/ \E s \in S, d \in Durations : StartCall(s, d)
    \/ \E s \in S : LoopNext(s)
    \/ \E s \in S, c \in C : ReceiveClose(s, c)
    \/ \E c \in C : CloseCall(c) \/ Close(c)

(***************************************************************************)
(* Spec: one Start caller, one Close caller, the configuring caller, a     *)
(* consumer of w.Error and a file system that changes.                     *)
(***************************************************************************)
Next ==
    \/ FsNext
    \/ ConfigNext
    \/ CallersNext({"s1"}, {"c1"})
    \/ DeletedRootNext("s1")

Spec == Init /\ [][Next]_vars

(***************************************************************************)
(* SpecLife: the life cycle under two Start callers, two Close callers and *)
(* the configuring caller, on a file system that changes only by the loss  *)
(* of an entry under a running walk; nobody receives from w.Error.         *)
(***************************************************************************)
InitLife ==
    /\ New
    /\ fs = InitFs
    /\ panicked = NoPanic
    /\ pc = [p \in Procs |-> "idle"]
    /\ result = [p \in Procs |-> NoResult]
    /\ loc = [s \in Starters |-> InitLoc]
    /\ cfg = [left |-> LifeConfigCalls, arg |-> <<>>]
    /\ delivered = <<>>
    /\ errors = <<>>
    /\ hist = [cfgDirty |-> FALSE, addSinceClear |-> FALSE, cleared |-> {}]
    /\ poll = InitPoll

NextLife ==
    \/ ConfigNext
    \/ CallersNext(Starters, Closers)

SpecLife == InitLife /\ [][NextLife]_vars

(***************************************************************************)
(* SpecWait: two Start callers, one Close caller, the configuring caller   *)
(* and a caller of TriggerEvent, which waits in Wait.                      *)
(***************************************************************************)
NextWait ==
    \/ ConfigNext
    \/ CallersNext(Starters, {"c1"})
    \/ TriggerEvent \/ Wait
    \/ \E op \in TriggerOps : ReceiveTriggered(op)

SpecWait == InitLife /\ [][NextWait]_vars


(***************************************************************************)
(* SpecList: one Start caller with a consumer of w.Error, roots added by   *)
(* Add and AddRecursive, and a file system that loses paths and read       *)
(* permissions.                                                            *)
(***************************************************************************)
NextList ==
    \/ \E p \in FsPaths : FsRemove(p) \/ FsDeny(p)
    \/ \E a \in ArgPaths, produced \in BOOLEAN :
          Add(a, produced) \/ AddRecursive(a, produced)
    \/ \E d \in Durations : StartCall("s1", d)
    \/ LoopNext("s1")
    \/ DeletedRootNext("s1")
    \/ ReceiveOtherError("s1")

SpecList == Init /\ [][NextList]_vars

(***************************************************************************)
(* pollEvents(files, evt, cancel): the diff of the new listing poll.new    *)
(* against w.files, under w.mu.  Every send on evt is a select with        *)
(* cancel; the events received from evt are collected in poll.out.         *)
(* sameFile is not part of the listed source: it compares size,            *)
(* modification time and permission bits.                                  *)
(***************************************************************************)
sameFile(fi1, fi2) ==
    /\ fi1.size = fi2.size
    /\ fi1.mtime = fi2.mtime
    /\ fi1.mode = fi2.mode

Arrow == <<" ", "-", ">", " ">>

RenamePath(path1, path2) == path1 \o Arrow \o path2

\* The pairing event with the metadata of the created entry.
PairEventNewInfo(path1, info1, path2) ==
    Event(IF Dir(path1) = Dir(path2) THEN Rename ELSE Move,
          RenamePath(path1, path2), poll.creates[path2])

PairEvent(path1, info1, path2) ==
    Event(IF Dir(path1) = Dir(path2) THEN Rename ELSE Move,
          RenamePath(path1, path2), info1)

PollReturns ==
    /\ mu' = Free
    /\ UNCHANGED <<fs, runnning, names, files, ignored, ops, maxEvents, wg,
                   ClosedCh, panicked, pc, result, loc, cfg, delivered,
                   errors, hist>>

PollKeeps ==
    UNCHANGED <<fs, mu, runnning, names, files, ignored, ops, maxEvents, wg,
                ClosedCh, panicked, pc, result, loc, cfg, delivered, errors,
                hist>>

\* Lock, and the first loop: the removal candidates.
PollBegin ==
    /\ Alive
    /\ poll.pc = "idle"
    /\ mu = Free
    /\ mu' = "pollEvents"
    /\ poll' = [poll EXCEPT
                 !.pc = "files",
                 !.creates = EmptyMap,
                 !.removes = [p \in DOMAIN files \ DOMAIN poll.new |-> files[p]],
                 !.todo = DOMAIN poll.new]
    /\ UNCHANGED <<fs, runnning, names, files, ignored, ops, maxEvents, wg,
                   ClosedCh, panicked, pc, result, loc, cfg, delivered,
                   errors, hist>>

\* The second loop with a Write event for every path that both maps have.
PollVisitAlwaysWrite(path) ==
    /\ Alive
    /\ poll.pc = "files"
    /\ path \in poll.todo
    /\ IF path \notin DOMAIN files
       THEN poll' = [poll EXCEPT !.todo = @ \ {path},
                                 !.creates = MapPut(@, path, poll.new[path])]
       ELSE poll' = [poll EXCEPT !.todo = @ \ {path},
                                 !.cur = path,
                                 !.pc = "write"]
    /\ PollKeeps

\* The second loop: one key of the range over files.
PollVisit(path) ==
    /\ Alive
    /\ poll.pc = "files"
    /\ path \in poll.todo
    /\ IF path \notin DOMAIN files
       THEN poll' = [poll EXCEPT !.todo = @ \ {path},
                                 !.creates = MapPut(@, path, poll.new[path])]
       ELSE poll' = [poll EXCEPT
                      !.todo = @ \ {path},
                      !.cur = IF files[path].mtime # poll.new[path].mtime
                                 \/ files[path].mode # poll.new[path].mode
                              THEN path ELSE <<>>,
                      !.pc = IF files[path].mtime # poll.new[path].mtime
                             THEN "write"
                             ELSE IF files[path].mode # poll.new[path].mode
                             THEN "chmod" ELSE "files"]
    /\ PollKeeps

PollSendWrite ==
    /\ Alive
    /\ poll.pc = "write"
    /\ poll' = [poll EXCEPT
                 !.out = Append(@, Event(Write, poll.cur, poll.new[poll.cur])),
                 !.cur = IF files[poll.cur].mode # poll.new[poll.cur].mode
                         THEN poll.cur ELSE <<>>,
                 !.pc = IF files[poll.cur].mode # poll.new[poll.cur].mode
                        THEN "chmod" ELSE "files"]
    /\ PollKeeps

PollSendChmod ==
    /\ Alive
    /\ poll.pc = "chmod"
    /\ poll' = [poll EXCEPT
                 !.out = Append(@, Event(Chmod, poll.cur, poll.new[poll.cur])),
                 !.cur = <<>>,
                 !.pc = "files"]
    /\ PollKeeps

PollFilesDone ==
    /\ Alive
    /\ poll.pc = "files"
    /\ poll.todo = {}
    /\ poll' = [poll EXCEPT !.pc = "pair", !.todo = DOMAIN poll.removes]
    /\ PollKeeps

\* The rename/move loops: path1, info1 of the outer range, then each key of
\* the inner range over creates.
PollOuter(path1) ==
    /\ Alive
    /\ poll.pc = "pair"
    /\ path1 \in poll.todo
    /\ poll' = [poll EXCEPT !.pc = "inner",
                            !.todo = @ \ {path1},
                            !.cur = path1,
                            !.info1 = poll.removes[path1],
                            !.todoC = DOMAIN poll.creates]
    /\ PollKeeps

PollInner(path2) ==
    /\ Alive
    /\ poll.pc = "inner"
    /\ path2 \in poll.todoC
    /\ IF sameFile(poll.info1, poll.creates[path2])
       THEN poll' = [poll EXCEPT
                      !.todoC = @ \ {path2},
                      !.ev = PairEvent(poll.cur, poll.info1, path2),
                      !.removes = MapDelete(@, {poll.cur}),
                      !.creates = MapDelete(@, {path2}),
                      !.pc = "pairsend"]
       ELSE poll' = [poll EXCEPT !.todoC = @ \ {path2}]
    /\ PollKeeps

PollSendPair ==
    /\ Alive
    /\ poll.pc = "pairsend"
    /\ poll' = [poll EXCEPT !.out = Append(@, poll.ev),
                            !.ev = <<>>,
                            !.pc = "inner"]
    /\ PollKeeps

PollInnerDone ==
    /\ Alive
    /\ poll.pc = "inner"
    /\ poll.todoC = {}
    /\ poll' = [poll EXCEPT !.pc = "pair", !.cur = <<>>, !.info1 = <<>>]
    /\ PollKeeps

PollPairDone ==
    /\ Alive
    /\ poll.pc = "pair"
    /\ poll.todo = {}
    /\ poll' = [poll EXCEPT !.pc = "creates", !.todo = DOMAIN poll.creates]
    /\ PollKeeps

PollSendCreate(path) ==
    /\ Alive
    /\ poll.pc = "creates"
    /\ path \in poll.todo
    /\ poll' = [poll EXCEPT
                 !.todo = @ \ {path},
                 !.out = Append(@, Event(Create, path, poll.creates[path]))]
    /\ PollKeeps

PollCreatesDone ==
    /\ Alive
    /\ poll.pc = "creates"
    /\ poll.todo = {}
    /\ poll' = [poll EXCEPT !.pc = "removes", !.todo = DOMAIN poll.removes]
    /\ PollKeeps

PollSendRemove(path) ==
    /\ Alive
    /\ poll.pc = "removes"
    /\ path \in poll.todo
    /\ poll' = [poll EXCEPT
                 !.todo = @ \ {path},
                 !.out = Append(@, Event(Remove, path, poll.removes[path]))]
    /\ PollKeeps

PollReturn ==
    /\ Alive
    /\ poll.pc = "removes"
    /\ poll.todo = {}
    /\ poll' = [poll EXCEPT !.pc = "ret"]
    /\ PollReturns

\* The receiver of evt closes cancel; a select that finds cancel closed may
\* take that case and return.
CloseCancel ==
    /\ Alive
    /\ poll.pc \notin {"idle", "ret"}
    /\ ~poll.cancel
    /\ poll' = [poll EXCEPT !.cancel = TRUE]
    /\ PollKeeps

AtSelect ==
    \/ poll.pc \in {"write", "chmod", "pairsend"}
    \/ poll.pc \in {"creates", "removes"} /\ poll.todo # {}

PollCancelled ==
    /\ Alive
    /\ AtSelect
    /\ poll.cancel
    /\ poll' = [poll EXCEPT !.pc = "cancelled"]
    /\ PollReturns

(***************************************************************************)
(* SpecDiff: pollEvents applied to every pair of snapshots over DiffPaths. *)
(***************************************************************************)
\* The size, mode and modification time of the files of a snapshot.
DiffInfos == {<<10, 0, 0>>, <<10, 0, 1>>, <<10, 1, 0>>, <<20, 0, 0>>}

Snapshots ==
    UNION {{[p \in D |-> FileInfo(Base(p), FALSE, m[p][1], m[p][2], m[p][3])]
              : m \in [D -> DiffInfos]} : D \in SUBSET DiffPaths}

InitDiff ==
    /\ mu = Free
    /\ runnning = FALSE
    /\ names = EmptyMap
    /\ ignored = {}
    /\ ops = {}
    /\ maxEvents = 0
    /\ wg = 1
    /\ ClosedCh = 0
    /\ fs = InitFs
    /\ panicked = NoPanic
    /\ pc = [p \in Procs |-> "idle"]
    /\ result = [p \in Procs |-> NoResult]
    /\ loc = [s \in Starters |-> InitLoc]
    /\ cfg = [left |-> 0, arg |-> <<>>]
    /\ delivered = <<>>
    /\ errors = <<>>
    /\ hist = [cfgDirty |-> FALSE, addSinceClear |-> FALSE, cleared |-> {}]
    /\ \E old \in Snapshots, new \in Snapshots :
          /\ files = old
          /\ poll = [InitPoll EXCEPT !.new = new]

NextDiff ==
    \/ PollBegin
    \/ \E path \in DiffPaths : PollVisit(path)
    \/ PollSendWrite \/ PollSendChmod \/ PollFilesDone
    \/ \E path1 \in DiffPaths : PollOuter(path1)
    \/ \E path2 \in DiffPaths : PollInner(path2)
    \/ PollSendPair \/ PollInnerDone \/ PollPairDone
    \/ \E path \in DiffPaths : PollSendCreate(path)
    \/ PollCreatesDone
    \/ \E path \in DiffPaths : PollSendRemove(path)
    \/ PollReturn
    \/ CloseCancel \/ PollCancelled

SpecDiff == InitDiff /\ [][NextDiff]_vars


(***************************************************************************)
(* Properties of the life cycle, checked under SpecLife and SpecWait.      *)
(***************************************************************************)
LoopPcs == {"list", "iter", "senderr", "unlock", "rm", "relock", "sendother",
            "select", "commit", "sleep"}

InLoop(s) == pc[s] \in LoopPcs

\* The Start calls that passed the interval check and finished the test of
\* w.runnning.
Decided == {s \in Starters : pc[s] \notin {"idle", "lock"}
                             /\ result[s] # ErrDurationTooShort}

\* C1: two Start calls with valid intervals and no Close between them: one
\* enters the poll loop, the other returns ErrWatcherRunning, and two poll
\* loops never run on one watcher.
C1_OneLoopOneError ==
    /\ Cardinality({s \in Starters : InLoop(s)}) <= 1
    /\ hist.cleared = {} /\ Decided = Starters =>
          \E s \in Starters :
              /\ pc[s] \in LoopPcs \cup {"wgdone"}
              /\ \A o \in Starters \ {s} :
                    pc[o] = "ret" /\ result[o] = ErrWatcherRunning

C1_Witness ==
    /\ hist.cleared = {}
    /\ \E s \in Starters :
          /\ pc[s] = "select"
          /\ \A o \in Starters \ {s} :
                pc[o] = "ret" /\ result[o] = ErrWatcherRunning

\* No Start call other than ones that returned ErrDurationTooShort has
\* been made.
OnlyTooShort ==
    \A s \in Starters : pc[s] = "idle" \/ result[s] = ErrDurationTooShort

TooShortStep(s) ==
    /\ pc[s] = "idle"
    /\ pc'[s] = "ret"
    /\ result'[s] = ErrDurationTooShort

\* C2: a Start whose interval is below 1ns returns ErrDurationTooShort and
\* changes nothing of the watcher and of the other callers; and while no
\* other Start has been made the watcher stays as New left it: not running,
\* the ready counter at 1, no caller of Wait released.
C2_TooShortChangesNothing ==
    [][/\ \A s \in Starters : TooShortStep(s) =>
            /\ UNCHANGED <<mu, runnning, names, files, ignored, ops,
                           maxEvents, wg, ClosedCh, panicked, loc>>
            /\ \A p \in Procs \ {s} : pc'[p] = pc[p]
       /\ OnlyTooShort' =>
            ~runnning' /\ wg' = 1 /\ pc'[Trigger] \in {"idle", "wait"}]_vars

\* A too short Start has returned, a later Start with a valid interval is
\* in the loop, and the caller of Wait has been released by it.
C2_Witness ==
    /\ result["s1"] = ErrDurationTooShort
    /\ pc["s2"] = "select"
    /\ pc[Trigger] = "send"

\* C4: close(w.Closed) is executed at most once, and exactly once when a
\* poll loop has terminated.
C4_ClosedOnce ==
    /\ ClosedCh <= 1
    /\ \A s \in Starters :
          pc[s] = "ret" /\ result[s] = ResultNil => ClosedCh = 1

C4_Witness ==
    /\ ClosedCh = 1
    /\ \E s \in Starters : pc[s] = "ret" /\ result[s] = ResultNil
    /\ \A c \in Closers : pc[c] = "ret"
    /\ cfg.left < LifeConfigCalls

(***************************************************************************)
(* SpecClose: one Start caller, one Close caller, a root added by Add or   *)
(* AddRecursive, paths that are deleted and a consumer of w.Error.         *)
(* FairSpec is SpecClose under the scheduling the runtime gives.  A        *)
(* goroutine that can run does run (weak fairness of the loop's own        *)
(* steps); a select picks among its ready cases at random and a waiter for *)
(* the mutex is not starved (strong fairness of receiving w.close and of   *)
(* Close's critical section).  Nothing obliges a consumer to receive from  *)
(* w.Error, the file system to change or a caller to make a call.          *)
(***************************************************************************)
NextClose ==
    \/ \E p \in FsPaths : FsRemove(p)
    \/ \E a \in ArgPaths, produced \in BOOLEAN :
          Add(a, produced) \/ AddRecursive(a, produced)
    \/ CallersNext({"s1"}, {"c1"})
    \/ DeletedRootNext("s1")

SpecClose == InitLife /\ [][NextClose]_vars

FairSpec ==
    /\ SpecClose
    /\ WF_vars(LoopNext("s1"))
    /\ WF_vars(RetrieveUnlock("s1") \/ RetrieveRemove("s1")
               \/ RetrieveRelock("s1"))
    /\ SF_vars(ReceiveClose("s1", "c1"))
    /\ SF_vars(Close("c1"))

(***************************************************************************)
(* Properties of the poll loop, checked under Spec and FairSpec.           *)
(***************************************************************************)

\* C3: a Close called on a running watcher leads to Closed (close(w.Closed)
\* executed and Close returned) with no consumer having to receive.
C3_CloseReachesClosed ==
    \A c \in {"c1"} :
        (pc[c] = "lock" /\ runnning) ~> (pc[c] = "ret" /\ ClosedCh = 1)

\* C5: once a Close that found the watcher running has returned, and no
\* Add or AddRecursive was made after it cleared the state, w.files and
\* w.names are empty.
C5_CloseClearsState ==
    \A c \in Closers :
        pc[c] = "ret" /\ c \in hist.cleared /\ ~hist.addSinceClear =>
            files = EmptyMap /\ names = EmptyMap

\* C6: while the loop is blocked in a send to a consumer, w.mu is not held.
C6_LockFreeWhileBlocked ==
    \A s \in Starters : pc[s] = "senderr" => mu = Free


\* The events of the cycle's diff that a consumer received from w.Event
\* (an event of TriggerEvent has the path "-").
FromLoop(e) == e.Path # TriggerPath

CycleEvents == SelectSeq(delivered, FromLoop)

\* The new listing differs from the committed snapshot in the modification
\* time of path and in nothing else.
OnlyMtimeChanged(old, new, path) ==
    /\ DOMAIN old = DOMAIN new
    /\ path \in DOMAIN old
    /\ old[path].mtime # new[path].mtime
    /\ new[path] = [old[path] EXCEPT !.mtime = new[path].mtime]
    /\ \A q \in DOMAIN old \ {path} : old[q] = new[q]

\* C8: a cycle whose listing differs from the committed snapshot only in
\* the modification time of one path, with no configuration call since the
\* last commit and Write not filtered out, has delivered exactly one Write
\* event for that path when it commits.
C8_OneWriteDelivered ==
    \A s \in Starters : \A path \in FsPaths :
        /\ pc[s] = "commit"
        /\ ~hist.cfgDirty
        /\ ops = {} \/ Write \in ops
        /\ OnlyMtimeChanged(files, loc[s].fileList, path)
        => CycleEvents = <<Event(Write, path, loc[s].fileList[path])>>

\* The number of events of the diff of new against old when no removal
\* candidate has the metadata of a creation candidate.
WriteChmods(old, new) ==
    Cardinality({p \in DOMAIN old \cap DOMAIN new :
                    old[p].mtime # new[p].mtime})
    + Cardinality({p \in DOMAIN old \cap DOMAIN new :
                    old[p].mode # new[p].mode})

NoPairs(old, new) ==
    \A r \in DOMAIN old \ DOMAIN new : \A c \in DOMAIN new \ DOMAIN old :
        ~sameFile(old[r], new[c])

NumDiffEvents(old, new) ==
    WriteChmods(old, new)
    + Cardinality(DOMAIN new \ DOMAIN old)
    + Cardinality(DOMAIN old \ DOMAIN new)

\* C9: with a cap n > 0, no filter, and a diff of more than n events, a
\* cycle has delivered exactly n events when it commits.
C9_CapDelivers ==
    \A s \in Starters :
        /\ pc[s] = "commit"
        /\ ~hist.cfgDirty
        /\ maxEvents > 0
        /\ ops = {}
        /\ NoPairs(files, loc[s].fileList)
        /\ NumDiffEvents(files, loc[s].fileList) > maxEvents
        => Len(CycleEvents) = maxEvents

\* C10: once Ignore(p) has returned, no key of w.files has the prefix p.
C10_IgnoredStayOut ==
    \A p \in ignored : \A q \in DOMAIN files : ~HasPrefix(q, p)

(***************************************************************************)
(* Properties of the diff, checked under SpecDiff.                         *)
(***************************************************************************)
OldTerminal(p) ==
    {i \in DOMAIN poll.out :
        \/ poll.out[i].Op = Remove /\ poll.out[i].Path = p
        \/ /\ poll.out[i].Op \in {Rename, Move}
           /\ \E q \in DiffPaths : poll.out[i].Path = RenamePath(p, q)}

NewTerminal(p) ==
    {i \in DOMAIN poll.out :
        \/ poll.out[i].Op = Create /\ poll.out[i].Path = p
        \/ /\ poll.out[i].Op \in {Rename, Move}
           /\ \E q \in DiffPaths : poll.out[i].Path = RenamePath(q, p)}

\* C7: a diff that ran to its end has emitted exactly one of Remove, Rename,
\* Move for every path of the old snapshot that the new one lacks, and
\* exactly one of Create, Rename, Move for every path only the new one has.
C7_OneTerminalEvent ==
    poll.pc = "ret" =>
        /\ \A p \in DOMAIN files \ DOMAIN poll.new :
              Cardinality(OldTerminal(p)) = 1
        /\ \A p \in DOMAIN poll.new \ DOMAIN files :
              Cardinality(NewTerminal(p)) = 1

(***************************************************************************)
(* Properties of the configuration calls.                                  *)
(***************************************************************************)

\* C11: an Add or AddRecursive of a path that is in w.ignored returns nil
\* and leaves w.names and w.files as they were.
C11_AddIgnoredNoOp ==
    [][\A a \in ArgPaths : \A produced \in BOOLEAN :
          /\ Abs(a) \in ignored
          /\ Add(a, produced) \/ AddRecursive(a, produced)
          => /\ UNCHANGED <<names, files>>
             /\ result'[Configurer] = ResultNil]_vars

\* C12: once close(w.Closed) has been executed, no value is received from
\* w.Event any more, be it sent by the poll loop or by TriggerEvent.
C12_NoEventAfterClosed ==
    [][ClosedCh >= 1 => Len(delivered') <= Len(delivered)]_vars

(***************************************************************************)
(* Further properties of the diff, checked under SpecDiff.                 *)
(***************************************************************************)
RemovalCandidates == DOMAIN files \ DOMAIN poll.new

CreationCandidates == DOMAIN poll.new \ DOMAIN files

Matching(r, c) == sameFile(files[r], poll.new[c])

PairEvents == {i \in DOMAIN poll.out : poll.out[i].Op \in {Rename, Move}}

\* r and c match each other and nothing else.
OnlyMatch(r, c) ==
    /\ Matching(r, c)
    /\ \A c2 \in CreationCandidates \ {c} : ~Matching(r, c2)
    /\ \A r2 \in RemovalCandidates \ {r} : ~Matching(r2, c)

\* C13: every Rename or Move event is for a removal candidate r and a
\* creation candidate c with matching metadata, is Rename exactly when r and
\* c have the same parent directory, has the path "r -> c" and the metadata
\* of the old entry, and no Create or Remove event is emitted for r or c;
\* and a diff that ran to its end has emitted that event for every r and c
\* that match each other only.
C13_RenameOrMove ==
    /\ \A i \in PairEvents :
          \E r \in RemovalCandidates, c \in CreationCandidates :
              /\ Matching(r, c)
              /\ poll.out[i].Op = IF Dir(r) = Dir(c) THEN Rename ELSE Move
              /\ poll.out[i].Path = r \o <<" ", "-", ">", " ">> \o c
              /\ poll.out[i].FileInfo = files[r]
              /\ \A j \in DOMAIN poll.out :
                    poll.out[j].Op \in {Create, Remove}
                        => poll.out[j].Path \notin {r, c}
    /\ poll.pc = "ret" =>
          \A r \in RemovalCandidates, c \in CreationCandidates :
              OnlyMatch(r, c) =>
                  \E i \in PairEvents :
                      poll.out[i].Path = r \o <<" ", "-", ">", " ">> \o c

\* A finished diff of {/a/x} against {/b/x, /a/y}: /a/x moved to /b/x, its
\* metadata unchanged, and /a/y is new.
C13_Witness ==
    /\ poll.pc = "ret"
    /\ DOMAIN files = {PathAX}
    /\ DOMAIN poll.new = {PathBX, PathAY}
    /\ \E i \in DOMAIN poll.out :
          poll.out[i] = Event(Move, PathAX \o <<" ", "-", ">", " ">> \o PathBX,
                              files[PathAX])
    /\ \E i \in DOMAIN poll.out :
          poll.out[i].Op = Create /\ poll.out[i].Path = PathAY

\* The event e is about the path p.
Mentions(e, p) ==
    \/ e.Path = p
    \/ /\ e.Op \in {Rename, Move}
       /\ \E q \in DiffPaths :
             e.Path \in {RenamePath(p, q), RenamePath(q, p)}

\* C14: the diff of a snapshot against itself emits no event, and no event
\* is about a path that both snapshots have with the same modification
\* time and the same permission bits.
C14_UnchangedNoEvent ==
    /\ files = poll.new => poll.out = <<>>
    /\ \A p \in DOMAIN files \cap DOMAIN poll.new :
          /\ files[p].mtime = poll.new[p].mtime
          /\ files[p].mode = poll.new[p].mode
          => \A i \in DOMAIN poll.out : ~Mentions(poll.out[i], p)

\* A finished diff of a snapshot of three files against itself.
C14_Witness ==
    /\ poll.pc = "ret"
    /\ files = poll.new
    /\ DOMAIN files = DiffPaths

\* The place of an operation in the order of the loops of pollEvents.
Rank(op) ==
    IF op \in {Write, Chmod} THEN 0
    ELSE IF op \in {Rename, Move} THEN 1
    ELSE IF op = Create THEN 2
    ELSE 3

\* The events that one run of pollEvents sends on evt are in the order of
\* its loops: Write and Chmod, then Rename and Move, then Create, then
\* Remove.  This is a fact about one call of pollEvents made on its own;
\* Start never makes that call.
PollOutOrdered ==
    \A i, j \in DOMAIN poll.out :
        i < j => Rank(poll.out[i].Op) <= Rank(poll.out[j].Op)

(***************************************************************************)
(* Properties of the listing, checked under SpecList.                      *)
(***************************************************************************)
ReportedDeleted ==
    {errors[i].root :
        i \in {j \in DOMAIN errors : errors[j].err = ErrWatchedFileDeleted}}

Listing(n) == IF names[n] THEN listRecursive(n) ELSE list(n)

C17_RemoveRecursivePurges ==
    [][\A a \in ArgPaths :
          RemoveRecursive(a) =>
              /\ Abs(a) \notin DOMAIN names'
              /\ \A q \in DOMAIN files' : ~HasPrefix(q, Abs(a))]_vars

\* No cycle of Start delivers an event: nothing sends on the channel evt
\* of a cycle, so the case of the select that filters, counts and forwards
\* an event, the only place where the loop reads w.ops and w.maxEvents, is
\* never taken, whatever FilterOps and SetMaxEvents do meanwhile.
NoCycleEvent == CycleEvents = <<>>

\* Every key of w.files is a root of w.names, or the child of a root, or
\* a descendant of a recursive root.
Covered(p) ==
    \E n \in DOMAIN names :
        \/ p = n
        \/ Dir(p) = n
        \/ names[n] /\ HasPrefix(p, n \o <<"/">>)

\* C19: every path of the committed snapshot w.files is covered by a root
\* that is registered in w.names.
C19_FilesCoveredByRoots ==
    \A p \in DOMAIN files : Covered(p)

\* C20: no sequence of calls ends in a panic.
C20_NoPanic ==
    panicked = NoPanic

====
